---- MODULE Spec2Model ----
(***************************************************************************)
(* BarcodeMaker3x5: the React component that renders a barcode into an SVG *)
(* and rasterizes it to a downloadable PNG (exportPNG).  The model keeps   *)
(* the component's state (useState/useRef), the object URLs created and    *)
(* revoked through URL.createObjectURL / URL.revokeObjectURL, and one      *)
(* record per exportPNG invocation, which is suspended at its two awaits   *)
(* (image decode, canvas.toBlob).                                          *)
(***************************************************************************)
EXTENDS Integers, Sequences, FiniteSets, TLC

VARIABLES
    svgRef,        \* the preview container and what it holds
    value,         \* useState("ABC-12345")
    format,        \* useState("CODE128")
    dpi,           \* useState(300)
    downloadUrl,   \* useState(""): 0 is "", u > 0 is the object URL u
    error,         \* useState("")
    urls,          \* the object URLs URL.createObjectURL has handed out
    attempts,      \* one record per exportPNG invocation, in start order
    delivered      \* the download a.click() started in the step just taken, if any

vars == <<svgRef, value, format, dpi, downloadUrl, error,
          urls, attempts, delivered>>

----------------------------------------------------------------------------
(* Bounds of the model *)

MaxAttempts == 2
MaxImgSide == 4

----------------------------------------------------------------------------
(* Program constants *)

widthCm == 5
heightCm == 3
DefaultDpi == 300
MinDpi == 72
MaxDpi == 1200

DefaultValue == "ABC-12345"
DefaultFormat == "CODE128"

ErrRender == "Unable to render barcode with the current settings."
ErrNoBarcode == "No barcode to export."
ErrNoSvg == "SVG not found."
ErrExport == "Export failed. Try reducing DPI or changing the barcode format."

(* Inputs the form can hold *)
Values == {"", DefaultValue}
Formats == {DefaultFormat, "EAN13"}
Dpis == {MinDpi, DefaultDpi}

----------------------------------------------------------------------------
(* JavaScript numbers: a rational n/d (d > 0), or Infinity, -Infinity, NaN *)

Fin(n, d) == [k |-> "fin", n |-> n, d |-> d]
Num(n) == Fin(n, 1)
Infinity == [k |-> "inf", n |-> 0, d |-> 1]
NegInfinity == [k |-> "ninf", n |-> 0, d |-> 1]
NaN == [k |-> "nan", n |-> 0, d |-> 1]

isFinite(x) == x.k = "fin"

\* a / b for integers a, b
Div(a, b) ==
    IF b > 0 THEN Fin(a, b)
    ELSE IF b < 0 THEN Fin(-a, -b)
    ELSE IF a > 0 THEN Infinity
    ELSE IF a < 0 THEN NegInfinity
    ELSE NaN

\* Math.min(x, y)
MathMin(x, y) ==
    IF x.k = "nan" \/ y.k = "nan" THEN NaN
    ELSE IF x.k = "ninf" \/ y.k = "ninf" THEN NegInfinity
    ELSE IF x.k = "inf" THEN y
    ELSE IF y.k = "inf" THEN x
    ELSE IF x.n * y.d <= y.n * x.d THEN x ELSE y

\* i * x for an integer i
Times(i, x) ==
    IF x.k = "fin" THEN Fin(i * x.n, x.d)
    ELSE IF x.k = "nan" \/ i = 0 THEN NaN
    ELSE IF (i > 0) = (x.k = "inf") THEN Infinity
    ELSE NegInfinity

\* (i - x) / 2 for an integer i
HalfDiff(i, x) ==
    IF x.k = "fin" THEN Fin(i * x.d - x.n, 2 * x.d)
    ELSE IF x.k = "nan" THEN NaN
    ELSE IF x.k = "inf" THEN NegInfinity
    ELSE Infinity

\* Math.round(x): the integer nearest to x, halves going up
MathRound(x) ==
    IF x.k = "fin" THEN Num((2 * x.n + x.d) \div (2 * x.d)) ELSE x

IntMin(a, b) == IF a <= b THEN a ELSE b

----------------------------------------------------------------------------
(* The pure arithmetic of exportPNG *)

\* (mutant) the ratio taken upside down: pxPerCm = 2.54 / dpi
computeCanvasPxInverted(cm, d) == (2 * cm * 254 + 100 * d) \div (2 * 100 * d)

\* (mutant) the size truncated instead of rounded: Math.floor / (x | 0)
computeCanvasPxTruncated(cm, d) == (cm * d * 100) \div 254

\* const w = Math.round(widthCm * (dpi / 2.54))
computeCanvasPx(cm, d) == (2 * cm * d * 100 + 254) \div (2 * 254)

\* const pad = Math.round(Math.min(w, h) * 0.04)
computePad(w, h) == (2 * IntMin(w, h) * 4 + 100) \div (2 * 100)

\* (mutant) the scale fitted to the whole canvas, not to the padded area
drawRectNoPad(w, h, iw, ih) ==
    LET scale == MathMin(Div(w, iw), Div(h, ih))
        finalW == MathRound(Times(iw, scale))
        finalH == MathRound(Times(ih, scale))
        dx == MathRound(HalfDiff(w, finalW))
        dy == MathRound(HalfDiff(h, finalH))
    IN  [scale |-> scale, finalW |-> finalW, finalH |-> finalH,
         dx |-> dx, dy |-> dy]

\* (mutant) the image drawn at the corner of the padded area, not centered
drawRectTopLeft(w, h, iw, ih) ==
    LET pad == computePad(w, h)
        drawW == w - pad * 2
        drawH == h - pad * 2
        scale == MathMin(Div(drawW, iw), Div(drawH, ih))
        finalW == MathRound(Times(iw, scale))
        finalH == MathRound(Times(ih, scale))
    IN  [scale |-> scale, finalW |-> finalW, finalH |-> finalH,
         dx |-> Num(pad), dy |-> Num(pad)]

\* (mutant) the scale capped at 1: Math.min(1, drawW / iw, drawH / ih)
drawRectNoUpscale(w, h, iw, ih) ==
    LET pad == computePad(w, h)
        drawW == w - pad * 2
        drawH == h - pad * 2
        scale == MathMin(Num(1), MathMin(Div(drawW, iw), Div(drawH, ih)))
        finalW == MathRound(Times(iw, scale))
        finalH == MathRound(Times(ih, scale))
        dx == MathRound(HalfDiff(w, finalW))
        dy == MathRound(HalfDiff(h, finalH))
    IN  [scale |-> scale, finalW |-> finalW, finalH |-> finalH,
         dx |-> dx, dy |-> dy]

\* scale, finalW, finalH, dx, dy for a canvas w x h and a decoded image iw x ih
drawRect(w, h, iw, ih) ==
    LET pad == computePad(w, h)
        drawW == w - pad * 2
        drawH == h - pad * 2
        scale == MathMin(Div(drawW, iw), Div(drawH, ih))
        finalW == MathRound(Times(iw, scale))
        finalH == MathRound(Times(ih, scale))
        dx == MathRound(HalfDiff(w, finalW))
        dy == MathRound(HalfDiff(h, finalH))
    IN  [scale |-> scale, finalW |-> finalW, finalH |-> finalH,
         dx |-> dx, dy |-> dy]

----------------------------------------------------------------------------
(* The external symbol encoder: JsBarcode throws on data the format rejects *)

\* (CODE128 takes any ASCII text; EAN13 takes 12 or 13 digits only)
JsBarcodeAccepts(text, fmt) == fmt = "CODE128"

\* value || " "
SymbolText(v) == IF v = "" THEN " " ELSE v

----------------------------------------------------------------------------
(* Object URLs *)

\* The names of the blob: URLs an invocation a of exportPNG is handed: every
\* createObjectURL call returns a URL no earlier call returned
SvgUrl(a) == 2 * a - 1
PngUrl(a) == 2 * a

\* URL.createObjectURL(blob) returning u
createObjectURL(us, u, kind, a) ==
    [x \in DOMAIN us \cup {u} |->
        IF x = u THEN [kind |-> kind, attempt |-> a, revoked |-> 0] ELSE us[x]]

\* URL.revokeObjectURL(u)
revokeObjectURL(us, u) == [us EXCEPT ![u].revoked = @ + 1]

Live(u) == u \in DOMAIN urls /\ urls[u].revoked = 0

\* No download was started by the step just taken
NoDownload == [href |-> 0, download |-> ""]

----------------------------------------------------------------------------
Init ==
    /\ svgRef = [current |-> FALSE, svg |-> FALSE, symbol |-> FALSE, text |-> ""]
    /\ value = DefaultValue
    /\ format = DefaultFormat
    /\ dpi = DefaultDpi
    /\ downloadUrl = 0
    /\ error = ""
    /\ urls = [u \in {} |-> 0]
    /\ attempts = <<>>
    /\ delivered = NoDownload

----------------------------------------------------------------------------
(* React commits the component: the ref of the preview container is set *)
Mount ==
    /\ ~svgRef.current
    /\ svgRef' = [svgRef EXCEPT !.current = TRUE]
    /\ delivered' = NoDownload
    /\ UNCHANGED <<value, format, dpi, downloadUrl, error,
                   urls, attempts>>

\* renderBarcode() with the data v and the format f: the surface it leaves
renderedSurface(v, f) ==
    IF ~svgRef.current THEN svgRef
    ELSE IF JsBarcodeAccepts(SymbolText(v), f)
         THEN [current |-> TRUE, svg |-> TRUE, symbol |-> TRUE,
               text |-> SymbolText(v)]
         ELSE [current |-> TRUE, svg |-> TRUE, symbol |-> FALSE, text |-> ""]

\* renderBarcode() with the data v and the format f: the error it leaves
renderedError(v, f) ==
    IF ~svgRef.current THEN ""
    ELSE IF JsBarcodeAccepts(SymbolText(v), f) THEN "" ELSE ErrRender

\* The Render button, and the effect that runs after the first commit
renderBarcode ==
    /\ svgRef' = renderedSurface(value, format)
    /\ error' = renderedError(value, format)
    /\ delivered' = NoDownload
    /\ UNCHANGED <<value, format, dpi, downloadUrl,
                   urls, attempts>>

\* ID / Data input: setValue, then the effect on [value, format, ...]
SetValue ==
    \E v \in Values \ {value} :
        /\ svgRef.current
        /\ value' = v
        /\ svgRef' = renderedSurface(v, format)
        /\ error' = renderedError(v, format)
        /\ delivered' = NoDownload
        /\ UNCHANGED <<format, dpi, downloadUrl,
                       urls, attempts>>

\* Barcode Format select: setFormat, then the effect
SetFormat ==
    \E f \in Formats \ {format} :
        /\ svgRef.current
        /\ format' = f
        /\ svgRef' = renderedSurface(value, f)
        /\ error' = renderedError(value, f)
        /\ delivered' = NoDownload
        /\ UNCHANGED <<value, dpi, downloadUrl,
                       urls, attempts>>

\* DPI input: setDpi(Number(e.target.value)); dpi is no dependency of the effect
SetDpi ==
    \E d \in Dpis \ {dpi} :
        /\ svgRef.current
        /\ dpi' = d
        /\ delivered' = NoDownload
        /\ UNCHANGED <<svgRef, value, format, downloadUrl, error,
                       urls, attempts>>

----------------------------------------------------------------------------
(* exportPNG *)

NoRect == [scale |-> Num(0), finalW |-> Num(0), finalH |-> Num(0),
           dx |-> Num(0), dy |-> Num(0)]

\* The record of an invocation that has just run up to its first return or await
NewAttempt(pc, url, failedAt, err) ==
    [pc |-> pc, url |-> url, png |-> 0,
     dpi |-> dpi,
     w |-> computeCanvasPx(widthCm, dpi), h |-> computeCanvasPx(heightCm, dpi),
     symbol |-> svgRef.symbol, text |-> svgRef.text,
     img |-> <<0, 0>>, canvas |-> <<0, 0>>, drawn |-> FALSE, rect |-> NoRect,
     blob |-> "", failedAt |-> failedAt, err |-> err,
     alone |-> \A b \in 1..Len(attempts) : attempts[b].pc \notin {"decode", "encode"}]

\* The invocations so far, those still suspended now overlapped by a new one
Overlapped ==
    [b \in 1..Len(attempts) |->
        IF attempts[b].pc \in {"decode", "encode"}
        THEN [attempts[b] EXCEPT !.alone = FALSE] ELSE attempts[b]]

\* (mutant) exportPNG without the setError("") it opens with
exportPNGKeepsError ==
    /\ Len(attempts) < MaxAttempts
    /\ IF ~svgRef.current
       THEN /\ error' = ErrNoBarcode
            /\ attempts' = Append(Overlapped,
                                  NewAttempt("failed", 0, "surface", ErrNoBarcode))
            /\ urls' = urls
       ELSE IF ~svgRef.svg
       THEN /\ error' = ErrNoSvg
            /\ attempts' = Append(Overlapped,
                                  NewAttempt("failed", 0, "surface", ErrNoSvg))
            /\ urls' = urls
       ELSE /\ error' = error
            /\ urls' = createObjectURL(urls, SvgUrl(Len(attempts) + 1), "svg",
                                       Len(attempts) + 1)
            /\ attempts' = Append(Overlapped,
                                  NewAttempt("decode", SvgUrl(Len(attempts) + 1),
                                             "", ""))
    /\ delivered' = NoDownload
    /\ UNCHANGED <<svgRef, value, format, dpi, downloadUrl>>

\* exportPNG() from its entry to `await imgLoad`, or to an early return
exportPNG ==
    /\ Len(attempts) < MaxAttempts
    /\ IF ~svgRef.current
       THEN /\ error' = ErrNoBarcode
            /\ attempts' = Append(Overlapped,
                                  NewAttempt("failed", 0, "surface", ErrNoBarcode))
            /\ urls' = urls
       ELSE IF ~svgRef.svg
       THEN /\ error' = ErrNoSvg
            /\ attempts' = Append(Overlapped,
                                  NewAttempt("failed", 0, "surface", ErrNoSvg))
            /\ urls' = urls
       ELSE /\ error' = ""
            /\ urls' = createObjectURL(urls, SvgUrl(Len(attempts) + 1), "svg",
                                       Len(attempts) + 1)
            /\ attempts' = Append(Overlapped,
                                  NewAttempt("decode", SvgUrl(Len(attempts) + 1),
                                             "", ""))
    /\ delivered' = NoDownload
    /\ UNCHANGED <<svgRef, value, format, dpi, downloadUrl>>

\* (mutant) a catch that sets the error and forgets the snapshot URL
catchExportLeaks(a, stage) ==
    /\ error' = ErrExport
    /\ urls' = urls
    /\ attempts' = [attempts EXCEPT ![a].pc = "failed",
                                    ![a].blob = IF stage = "encode" THEN "null" ELSE "",
                                    ![a].failedAt = stage,
                                    ![a].err = ErrExport,
                                    ![a].alone = TRUE]
    /\ downloadUrl' = downloadUrl

\* (mutant) a catch that also resets the download slot: setDownloadUrl("")
catchExportClearsSlot(a, stage) ==
    /\ error' = ErrExport
    /\ urls' = revokeObjectURL(urls, attempts[a].url)
    /\ attempts' = [attempts EXCEPT ![a].pc = "failed",
                                    ![a].blob = IF stage = "encode" THEN "null" ELSE "",
                                    ![a].failedAt = stage,
                                    ![a].err = ErrExport,
                                    ![a].alone = TRUE]
    /\ downloadUrl' = 0

\* catch (e) { setError(...); URL.revokeObjectURL(url); }
catchExport(a, stage) ==
    /\ error' = ErrExport
    /\ urls' = revokeObjectURL(urls, attempts[a].url)
    /\ attempts' = [attempts EXCEPT ![a].pc = "failed",
                                    ![a].blob = IF stage = "encode" THEN "null" ELSE "",
                                    ![a].failedAt = stage,
                                    ![a].err = ErrExport,
                                    ![a].alone = TRUE]
    /\ downloadUrl' = downloadUrl

\* img.width, img.height the browser can report for a decoded snapshot: a
\* symbol carries the width and height JsBarcode wrote for its text; a bare
\* <svg> has none, and browsers report either no size or the default one
DecodedSizes(symbol, text) ==
    IF symbol THEN (IF text = " " THEN {<<108, 92>>} ELSE {<<246, 92>>})
    ELSE {<<0, 0>>, <<300, 150>>}

\* img.onerror: imgLoad rejects, the await throws into the catch
imgOnError(a) ==
    /\ attempts[a].pc = "decode"
    /\ catchExport(a, "decode")
    /\ delivered' = NoDownload
    /\ UNCHANGED <<svgRef, value, format, dpi>>

\* (mutant) toBlob is not awaited: the URL is made and stored at once
imgOnLoadSkipsEncode(a) ==
    /\ attempts[a].pc = "decode"
    /\ \E size \in DecodedSizes(attempts[a].symbol, attempts[a].text) :
        /\ attempts' = [attempts EXCEPT
               ![a].pc = "ready",
               ![a].img = size,
               ![a].canvas = <<attempts[a].w, attempts[a].h>>,
               ![a].drawn = TRUE,
               ![a].rect = drawRect(attempts[a].w, attempts[a].h, size[1], size[2]),
               ![a].blob = "png",
               ![a].png = PngUrl(a),
                                             ![a].alone = TRUE]
        /\ urls' = revokeObjectURL(createObjectURL(urls, PngUrl(a), "png", a),
                                   attempts[a].url)
        /\ downloadUrl' = PngUrl(a)
        /\ error' = error
    /\ delivered' = NoDownload
    /\ UNCHANGED <<svgRef, value, format, dpi>>

\* (mutant) the canvas sized after the await from the dpi state of that moment
imgOnLoadCurrentDpi(a) ==
    /\ attempts[a].pc = "decode"
    /\ \E size \in DecodedSizes(attempts[a].symbol, attempts[a].text), ctx \in BOOLEAN :
        IF ~ctx
        THEN catchExport(a, "draw")
        ELSE /\ attempts' = [attempts EXCEPT
                    ![a].pc = "encode",
                    ![a].img = size,
                    ![a].canvas = <<computeCanvasPx(widthCm, dpi),
                                    computeCanvasPx(heightCm, dpi)>>,
                    ![a].drawn = TRUE,
                    ![a].rect = drawRect(computeCanvasPx(widthCm, dpi),
                                         computeCanvasPx(heightCm, dpi),
                                         size[1], size[2])]
             /\ UNCHANGED <<error, urls, downloadUrl>>
    /\ delivered' = NoDownload
    /\ UNCHANGED <<svgRef, value, format, dpi>>

\* img.onload: exportPNG resumes, sets up the canvas, draws, and calls toBlob
imgOnLoad(a) ==
    /\ attempts[a].pc = "decode"
    /\ \E size \in DecodedSizes(attempts[a].symbol, attempts[a].text), ctx \in BOOLEAN :
        IF ~ctx
        THEN \* getContext("2d") gave null: ctx.fillStyle throws
             catchExport(a, "draw")
        ELSE /\ attempts' = [attempts EXCEPT
                    ![a].pc = "encode",
                    ![a].img = size,
                    ![a].canvas = <<attempts[a].w, attempts[a].h>>,
                    ![a].drawn = TRUE,
                    ![a].rect = drawRect(attempts[a].w, attempts[a].h,
                                         size[1], size[2])]
             /\ UNCHANGED <<error, urls, downloadUrl>>
    /\ delivered' = NoDownload
    /\ UNCHANGED <<svgRef, value, format, dpi>>

\* (mutant) createObjectURL does not throw on null: the URL is stored anyway
toBlobCallbackStoresNull(a) ==
    /\ attempts[a].pc = "encode"
    /\ \E blob \in {"png", "null"} :
        /\ urls' = revokeObjectURL(createObjectURL(urls, PngUrl(a), "png", a),
                                   attempts[a].url)
        /\ downloadUrl' = PngUrl(a)
        /\ attempts' = [attempts EXCEPT ![a].pc = "ready",
                                        ![a].blob = blob,
                                        ![a].png = PngUrl(a),
                                             ![a].alone = TRUE]
        /\ error' = error
    /\ delivered' = NoDownload
    /\ UNCHANGED <<svgRef, value, format, dpi>>

\* (mutant) the success path without its URL.revokeObjectURL(url)
toBlobCallbackKeepsSnapshot(a) ==
    /\ attempts[a].pc = "encode"
    /\ \E blob \in {"png", "null"} :
        IF blob = "null"
        THEN catchExport(a, "encode")
        ELSE /\ urls' = createObjectURL(urls, PngUrl(a), "png", a)
             /\ downloadUrl' = PngUrl(a)
             /\ attempts' = [attempts EXCEPT ![a].pc = "ready",
                                             ![a].blob = blob,
                                             ![a].png = PngUrl(a),
                                             ![a].alone = TRUE]
             /\ error' = error
    /\ delivered' = NoDownload
    /\ UNCHANGED <<svgRef, value, format, dpi>>

\* The toBlob callback: exportPNG resumes with the blob, or with null
toBlobCallback(a) ==
    /\ attempts[a].pc = "encode"
    /\ \E blob \in {"png", "null"} :
        IF blob = "null"
        THEN \* URL.createObjectURL(null) throws a TypeError
             catchExport(a, "encode")
        ELSE /\ urls' = revokeObjectURL(createObjectURL(urls, PngUrl(a), "png", a),
                                        attempts[a].url)
             /\ downloadUrl' = PngUrl(a)
             /\ attempts' = [attempts EXCEPT ![a].pc = "ready",
                                             ![a].blob = blob,
                                             ![a].png = PngUrl(a),
                                             ![a].alone = TRUE]
             /\ error' = error
    /\ delivered' = NoDownload
    /\ UNCHANGED <<svgRef, value, format, dpi>>

\* `${value || "barcode"}_${widthCm}x${heightCm}cm.png`
suggestedName(v) ==
    (IF v = "" THEN "barcode" ELSE v) \o "_" \o ToString(widthCm) \o "x"
        \o ToString(heightCm) \o "cm.png"

\* The Download button
handleDownload ==
    /\ downloadUrl # 0
    /\ delivered' = [href |-> downloadUrl, download |-> suggestedName(value)]
    /\ UNCHANGED <<svgRef, value, format, dpi, downloadUrl, error,
                   urls, attempts>>

----------------------------------------------------------------------------
Next ==
    \/ Mount
    \/ renderBarcode
    \/ SetValue
    \/ SetFormat
    \/ SetDpi
    \/ exportPNG
    \/ \E a \in 1..Len(attempts) : imgOnError(a)
    \/ \E a \in 1..Len(attempts) : imgOnLoad(a)
    \/ \E a \in 1..Len(attempts) : toBlobCallback(a)
    \/ handleDownload

Spec == Init /\ [][Next]_vars

TypeOK ==
    /\ value \in Values /\ format \in Formats /\ dpi \in Dpis
    /\ downloadUrl \in {0} \cup DOMAIN urls
    /\ error \in {"", ErrRender, ErrNoBarcode, ErrNoSvg, ErrExport}
    /\ Len(attempts) <= MaxAttempts

----------------------------------------------------------------------------
(* Specification with the scheduling the browser guarantees: an image that  *)
(* was given a src fires onload or onerror, and toBlob calls its callback   *)

LiveSpec ==
    /\ Init /\ [][Next]_vars
    /\ \A a \in 1..MaxAttempts :
        /\ WF_vars(a <= Len(attempts) /\ (imgOnLoad(a) \/ imgOnError(a)))
        /\ WF_vars(a <= Len(attempts) /\ toBlobCallback(a))

----------------------------------------------------------------------------
(* Vocabulary of the properties *)

Started == 1..Len(attempts)
InFlight(a) == attempts[a].pc \in {"decode", "encode"}
UrlsOf(a) == {u \in DOMAIN urls : urls[u].attempt = a}
LivePng == {u \in DOMAIN urls : urls[u].kind = "png" /\ urls[u].revoked = 0}

----------------------------------------------------------------------------
(* C1: at most one PNG download handle is live at any time: a handle that   *)
(* is replaced in the download slot has been revoked.                       *)
C1_AtMostOneLivePng == Cardinality(LivePng) <= 1

(* C2: every object URL created by an export attempt that ended in failure  *)
(* (at decode, at the canvas, at encode) is revoked in the state in which   *)
(* the attempt is failed and its error is set.                              *)
C2_FailedAttemptReleasesUrls ==
    \A a \in Started :
        attempts[a].pc = "failed" =>
            \A u \in UrlsOf(a) : urls[u].revoked >= 1

C2_Witness ==
    \E a \in Started :
        /\ attempts[a].pc = "failed"
        /\ attempts[a].failedAt = "encode"
        /\ UrlsOf(a) = {attempts[a].url}
        /\ error = ErrExport

(* C3: of two export attempts that have both completed successfully, the    *)
(* download slot holds the handle of the one started later, whichever       *)
(* callback came last.  (When the earlier-started attempt completes last,   *)
(* the later one was started while it was suspended: the two overlapped.)   *)
C3_LaterAttemptSupersedes ==
    \A a, b \in Started :
        ( /\ a < b
          /\ attempts[a].pc = "ready" /\ attempts[b].pc = "ready"
          /\ \A c \in Started \ {a, b} : attempts[c].pc # "ready" )
        => downloadUrl = attempts[b].png

(* C4: a download started by handleDownload hands over a handle produced by *)
(* the most recently begun export attempt, never one of an earlier attempt. *)
C4_NoStaleDelivery ==
    delivered.href # 0 => urls[delivered.href].attempt = Len(attempts)

(* C5: an attempt whose decoded image has zero width or zero height never   *)
(* draws with a non-finite scale or rectangle and never reaches Ready.      *)
C5_ZeroSizeImageFails ==
    \A a \in Started :
        (attempts[a].drawn /\ (attempts[a].img[1] = 0 \/ attempts[a].img[2] = 0))
        => /\ attempts[a].pc # "ready"
           /\ isFinite(attempts[a].rect.scale)
           /\ isFinite(attempts[a].rect.finalW) /\ isFinite(attempts[a].rect.finalH)
           /\ isFinite(attempts[a].rect.dx) /\ isFinite(attempts[a].rect.dy)

(* C6: an exportPNG invoked on a surface without a symbol (no container, no *)
(* inner svg, or an svg renderBarcode left unpopulated) reports a 'no       *)
(* symbol' error and creates no object URL.                                 *)
C6_NoSymbolNoHandle ==
    \A a \in Started :
        ~attempts[a].symbol =>
            /\ UrlsOf(a) = {}
            /\ attempts[a].pc = "failed"
            /\ attempts[a].err \in {ErrNoBarcode, ErrNoSvg}

(* C7: no step of an export attempt other than its reaching Ready changes   *)
(* the download slot or revokes the handle in it; an attempt that failed    *)
(* stays failed.  So a failed re-export leaves a previous Ready handle in   *)
(* the slot, live and downloadable.                                         *)
C7_FailedExportKeepsSlot ==
    [][\A a \in 1..Len(attempts') :
          /\ (a \in Started /\ attempts[a].pc = "failed")
                => attempts'[a].pc = "failed"
          /\ ( /\ (a \notin Started \/ attempts'[a] # attempts[a])
               /\ attempts'[a].pc # "ready" )
                => /\ downloadUrl' = downloadUrl
                   /\ downloadUrl # 0 =>
                        urls'[downloadUrl].revoked = urls[downloadUrl].revoked
      ]_vars

C7_Witness ==
    \E a, b \in Started :
        /\ a < b
        /\ attempts[a].pc = "ready"
        /\ attempts[b].pc = "failed" /\ attempts[b].failedAt # "surface"
        /\ downloadUrl = attempts[a].png
        /\ Live(downloadUrl)

(* C8: an export attempt moves only forward through its stages (started ->  *)
(* awaiting decode -> awaiting encode), ends only as Ready, with its handle *)
(* stored in the slot, or as Failed, with an error set, never leaves that   *)
(* outcome, and, the callbacks firing, always reaches one.                  *)
C8_StageOrder ==
    \A a \in 1..Len(attempts') :
        LET new == a \notin Started
            from == IF new THEN "start" ELSE attempts[a].pc
            to == attempts'[a].pc
        IN  /\ <<from, to>> \in
                  {<<"start", "decode">>, <<"start", "failed">>,
                   <<"decode", "decode">>, <<"decode", "encode">>,
                   <<"decode", "failed">>,
                   <<"encode", "encode">>, <<"encode", "ready">>,
                   <<"encode", "failed">>,
                   <<"ready", "ready">>, <<"failed", "failed">>}
            /\ (from # "ready" /\ to = "ready")
                  => downloadUrl' = attempts'[a].png /\ attempts'[a].png # 0
            /\ (from # "failed" /\ to = "failed") => error' # ""

C8_SequentialAndTerminates ==
    /\ [][C8_StageOrder]_vars
    /\ \A a \in 1..MaxAttempts :
          (a \in Started) ~> (a \in Started /\ attempts[a].pc \in {"ready", "failed"})

C8_Witness ==
    \E a, b \in Started :
        /\ attempts[a].pc = "ready" /\ attempts[a].drawn /\ attempts[a].blob = "png"
        /\ attempts[b].pc = "failed" /\ attempts[b].failedAt = "decode"

(* C9: the error reported for a decode failure differs from the error       *)
(* reported for a failure of a later stage.                                 *)
C9_DecodeErrorDistinct ==
    \A a, b \in Started :
        ( /\ attempts[a].pc = "failed" /\ attempts[a].failedAt = "decode"
          /\ attempts[b].pc = "failed" /\ attempts[b].failedAt \in {"draw", "encode"} )
        => attempts[a].err # attempts[b].err

(* C10: when toBlob calls back with null, the attempt is Failed with an     *)
(* error set and has put no handle into the download slot: no PNG object    *)
(* URL exists for it.                                                       *)
C10_NullBlobFails ==
    \A a \in Started :
        attempts[a].blob = "null" =>
            /\ attempts[a].pc = "failed"
            /\ attempts[a].err # ""
            /\ attempts[a].png = 0
            /\ PngUrl(a) \notin DOMAIN urls
            /\ downloadUrl # PngUrl(a)

C10_Witness ==
    \E a \in Started :
        /\ attempts[a].blob = "null"
        /\ attempts[a].pc = "failed"
        /\ error = ErrExport

----------------------------------------------------------------------------
(* The arithmetic of one export on its own: any dpi the DPI input can be    *)
(* given, a rendered symbol, and a decoded image of any of a range of sizes *)

GeomDpis == 1..MaxDpi
ImgSides == (1..MaxImgSide) \cup {92, 108, 150, 246, 300, 4000}

GeomInit ==
    /\ svgRef = [current |-> TRUE, svg |-> TRUE, symbol |-> TRUE,
                 text |-> SymbolText(DefaultValue)]
    /\ value = DefaultValue
    /\ format = DefaultFormat
    /\ dpi \in GeomDpis
    /\ downloadUrl = 0
    /\ error = ""
    /\ urls = [u \in {} |-> 0]
    /\ attempts = <<>>
    /\ delivered = NoDownload

\* exportPNG() up to `await imgLoad`: w and h are computed from dpi
geomExport ==
    /\ attempts = <<>>
    /\ exportPNG

\* img.onload with an image iw x ih: canvas, pad, scale, draw rectangle
geomOnLoad ==
    /\ Len(attempts) = 1
    /\ attempts[1].pc = "decode"
    /\ \E iw \in ImgSides, ih \in ImgSides :
        attempts' = [attempts EXCEPT
            ![1].pc = "encode",
            ![1].img = <<iw, ih>>,
            ![1].canvas = <<attempts[1].w, attempts[1].h>>,
            ![1].drawn = TRUE,
            ![1].rect = drawRect(attempts[1].w, attempts[1].h, iw, ih)]
    /\ delivered' = NoDownload
    /\ UNCHANGED <<svgRef, value, format, dpi, downloadUrl, error, urls>>

GeomNext ==
    \/ geomExport
    \/ geomOnLoad

GeomSpec == GeomInit /\ [][GeomNext]_vars

\* The attempt of a GeomSpec state, once exportPNG has computed its sizes
Sized == Len(attempts) = 1
Drawn == Len(attempts) = 1 /\ attempts[1].drawn
PadOf(a) == computePad(attempts[a].canvas[1], attempts[a].canvas[2])

\* |x|
Abs(x) == IF x < 0 THEN -x ELSE x

(* C11: for every integer dpi in [72, 1200] the canvas is w = round(5 *     *)
(* dpi / 2.54), h = round(3 * dpi / 2.54): the integers nearest to the      *)
(* exact quotients, not truncated; 300 dpi gives 591 x 354, 1200 dpi gives  *)
(* 2362 x 1417.                                                             *)
C11_CanvasPx ==
    (Sized /\ dpi >= MinDpi /\ dpi <= MaxDpi) =>
        LET w == attempts[1].w
            h == attempts[1].h
        IN  /\ 2 * Abs(254 * w - 100 * widthCm * dpi) <= 254
            /\ 2 * Abs(254 * h - 100 * heightCm * dpi) <= 254
            /\ dpi = 300 => <<w, h>> = <<591, 354>>
            /\ dpi = 1200 => <<w, h>> = <<2362, 1417>>

C11_Witness ==
    /\ Sized /\ dpi = 1200
    /\ attempts[1].w = 2362 /\ attempts[1].h = 1417

(* C12: for any positive integer dpi the padding of an export is at least 1 *)
(* pixel, so the available draw area is strictly smaller than the canvas in *)
(* both dimensions.                                                         *)
C12_PadNonZero ==
    Drawn =>
        /\ PadOf(1) >= 1
        /\ attempts[1].canvas[1] - 2 * PadOf(1) < attempts[1].canvas[1]
        /\ attempts[1].canvas[2] - 2 * PadOf(1) < attempts[1].canvas[2]

\* The draw rectangle of the attempt of a GeomSpec state, as integers
RectFinite ==
    /\ isFinite(attempts[1].rect.finalW) /\ isFinite(attempts[1].rect.finalH)
    /\ isFinite(attempts[1].rect.dx) /\ isFinite(attempts[1].rect.dy)
CanvasW == attempts[1].canvas[1]
CanvasH == attempts[1].canvas[2]
FinalW == attempts[1].rect.finalW.n
FinalH == attempts[1].rect.finalH.n
Dx == attempts[1].rect.dx.n
Dy == attempts[1].rect.dy.n

(* C13: for a canvas of a dpi in [72, 1200] and a decoded image of positive *)
(* width and height, the draw rectangle leaves at least pad pixels free on  *)
(* each of the four sides of the canvas.                                    *)
C13_QuietZone ==
    (Drawn /\ dpi >= MinDpi /\ dpi <= MaxDpi) =>
        /\ RectFinite
        /\ Dx >= PadOf(1)
        /\ Dy >= PadOf(1)
        /\ Dx + FinalW <= CanvasW - PadOf(1)
        /\ Dy + FinalH <= CanvasH - PadOf(1)

C13_Witness ==
    /\ Drawn /\ dpi = DefaultDpi /\ attempts[1].img = <<246, 92>>
    /\ PadOf(1) >= 1
    /\ Dx = PadOf(1) /\ Dx + FinalW = CanvasW - PadOf(1)
    /\ Dy > PadOf(1)

(* C14: for every canvas and every decoded image of positive width and      *)
(* height the draw rectangle is centered in the whole canvas to within one  *)
(* pixel: |2*dx + finalW - w| <= 2 and |2*dy + finalH - h| <= 2.            *)
C14_Centered ==
    Drawn =>
        /\ RectFinite
        /\ Abs(2 * Dx + FinalW - CanvasW) <= 2
        /\ Abs(2 * Dy + FinalH - CanvasH) <= 2

C14_Witness ==
    /\ Drawn
    /\ 2 * Dx + FinalW - CanvasW = 1
    /\ 2 * Dy + FinalH - CanvasH = 0
    /\ FinalH < CanvasH

(* C15: for every decoded image of positive width and height, smaller or    *)
(* larger than the available area, the scaled size lies within the          *)
(* available area and equals it in width or in height.                      *)
C15_FitAndFill ==
    Drawn =>
        LET availW == CanvasW - 2 * PadOf(1)
            availH == CanvasH - 2 * PadOf(1)
        IN  /\ RectFinite
            /\ FinalW <= availW
            /\ FinalH <= availH
            /\ FinalW = availW \/ FinalH = availH

C15_Witness ==
    /\ Drawn
    /\ attempts[1].img[1] < CanvasW - 2 * PadOf(1)
    /\ attempts[1].img[2] < CanvasH - 2 * PadOf(1)
    /\ FinalH = CanvasH - 2 * PadOf(1)
    /\ FinalW < CanvasW - 2 * PadOf(1)
    /\ FinalW > attempts[1].img[1]

(* C16: the canvas size grows with the dpi: for all positive integers       *)
(* dpi1 < dpi2 the width and the height computed for dpi2 are not smaller   *)
(* than those computed for dpi1.  (Read where exportPNG has just computed   *)
(* w and h; they do not change afterwards.)                                 *)
C16_MonotoneInDpi ==
    (Sized /\ ~attempts[1].drawn) =>
        \A dpi1 \in 1..(dpi - 1) :
            /\ computeCanvasPx(widthCm, dpi1) <= attempts[1].w
            /\ computeCanvasPx(heightCm, dpi1) <= attempts[1].h

C16_Witness ==
    /\ Sized /\ ~attempts[1].drawn /\ dpi = MaxDpi
    /\ computeCanvasPx(widthCm, MinDpi) < attempts[1].w
    /\ computeCanvasPx(heightCm, dpi - 1) < attempts[1].h

(* C17: the snapshot URL of an export attempt is revoked exactly once, not  *)
(* while its decode is pending, and by the time the attempt has ended: when *)
(* no attempt is in flight, no snapshot URL is live.                        *)
C17_SnapshotReleased ==
    /\ \A a \in Started :
        attempts[a].url # 0 =>
            /\ urls[attempts[a].url].kind = "svg"
            /\ urls[attempts[a].url].revoked <= 1
            /\ attempts[a].pc = "decode" => urls[attempts[a].url].revoked = 0
            /\ attempts[a].pc \in {"ready", "failed"}
                  => urls[attempts[a].url].revoked = 1
    /\ (\A a \in Started : ~InFlight(a))
          => \A u \in DOMAIN urls : urls[u].kind = "svg" => urls[u].revoked >= 1

C17_Witness ==
    \E a, b \in Started :
        /\ a # b
        /\ attempts[a].pc = "ready" /\ attempts[b].pc = "failed"
        /\ attempts[a].url # 0 /\ attempts[b].url # 0
        /\ urls[attempts[a].url].revoked = 1
        /\ urls[attempts[b].url].revoked = 1
        /\ \A c \in Started : ~InFlight(c)

\* The data string behind a rendered symbol text (JsBarcode is given value || " ")
RenderedData(text) == IF text = " " THEN "" ELSE text

(* C18: the file name handleDownload suggests is {data}_5x3cm.png for the   *)
(* data string of the symbol rasterized into the PNG being downloaded       *)
(* ('barcode' when it is empty), also when the data field was edited after  *)
(* the export.                                                              *)
C18_NameOfExportedData ==
    delivered.href # 0 =>
        LET a == urls[delivered.href].attempt
        IN  attempts[a].symbol =>
                delivered.download = suggestedName(RenderedData(attempts[a].text))

(* C19: the canvas (and so the PNG) of an export attempt has the size       *)
(* computed from the dpi that was current when the attempt was started:     *)
(* each attempt takes the dpi of its own start, and neither a later dpi     *)
(* change nor another attempt's size affects its canvas.                    *)
C19_StartDpi ==
    Len(attempts') > Len(attempts) =>
        /\ Len(attempts') = Len(attempts) + 1
        /\ attempts'[Len(attempts')].dpi = dpi
        /\ dpi' = dpi

C19_CanvasOfStartDpi ==
    \A a \in Started :
        attempts[a].drawn =>
            attempts[a].canvas = <<computeCanvasPx(widthCm, attempts[a].dpi),
                                   computeCanvasPx(heightCm, attempts[a].dpi)>>

C19_SizeFromDpiAtStart ==
    /\ [][C19_StartDpi]_vars
    /\ []C19_CanvasOfStartDpi

C19_Witness ==
    \E a, b \in Started :
        /\ a < b
        /\ attempts[a].pc = "ready" /\ attempts[b].pc = "ready"
        /\ attempts[a].dpi # attempts[b].dpi
        /\ attempts[a].canvas # attempts[b].canvas
        /\ attempts[b].dpi # dpi

\* An attempt that fails takes no step afterwards and its failure starts no
\* new attempt; an attempt started on a symbol clears the error
C20_NoRetryCleanStart ==
    \A a \in 1..Len(attempts') :
        /\ (a \in Started /\ attempts[a].pc = "failed")
              => attempts'[a] = attempts[a]
        /\ (a \in Started /\ attempts[a].pc # "failed" /\ attempts'[a].pc = "failed")
              => Len(attempts') = Len(attempts)
        /\ (a \notin Started /\ attempts'[a].symbol)
              => attempts'[a].pc = "decode" /\ error' = ""

\* Attempt a, started on a symbol and overlapped by no other attempt, gets
\* its PNG blob in this step
ReadyStep(a) ==
    /\ a \in Started
    /\ attempts[a].pc = "encode" /\ attempts[a].symbol /\ attempts[a].alone
    /\ attempts'[a].blob = "png"

(* C20 (as claimed): no step follows a failure on its own; a new attempt    *)
(* clears the error at its start and, on a valid symbol with decode and     *)
(* encode succeeding and no other attempt overlapping, reaches Ready with   *)
(* the error field empty.                                                   *)
C20_RetryReachesReadyClean ==
    [][/\ C20_NoRetryCleanStart
       /\ \A a \in 1..Len(attempts') :
            ReadyStep(a) => attempts'[a].pc = "ready" /\ error' = ""
      ]_vars

(* C20 (amended): as above, but at Ready the error field is empty or holds  *)
(* the render error of a renderBarcode that failed while the attempt was in *)
(* flight (the surface then holds no symbol).                               *)
C20_RetryReachesReady ==
    [][/\ C20_NoRetryCleanStart
       /\ \A a \in 1..Len(attempts') :
            ReadyStep(a) =>
                /\ attempts'[a].pc = "ready"
                /\ error' = "" \/ (error' = ErrRender /\ ~svgRef'.symbol)
      ]_vars

C20_Witness ==
    \E a, b \in Started :
        /\ a < b
        /\ attempts[a].pc = "failed" /\ attempts[a].err = ErrExport
        /\ attempts[b].pc = "ready" /\ attempts[b].symbol
        /\ error = ""

====
